---- MODULE Spec2Model ----
(***************************************************************************)
(* A model of yarn: a serverless thread whose whole state travels in the   *)
(* URL fragment, compressed and encrypted.                                 *)
(*                                                                         *)
(* Text and bytes.  A JavaScript string is a sequence of characters and an *)
(* ArrayBuffer a sequence of bytes; every character and every byte is a    *)
(* record whose field names say what it is:                                *)
(*   [ch |-> s]            literal text s (a name, an id, the ":" of a     *)
(*                         keyed fragment)                                 *)
(*   [jwk |-> n]           the exported text of the AES key number n       *)
(*   [p |-> s], [key |-> s], [str |-> text], [num |-> n]                   *)
(*                         the tokens of a JSON text                       *)
(*   [u8 |-> c]            the UTF-8 bytes of the character c              *)
(*   [gz |-> bytes]        a gzip stream holding bytes                     *)
(*   [b64 |-> b]           the base64 characters of the byte b             *)
(*   [ks |-> n, pos |-> i, pt |-> b]                                       *)
(*                         byte i of an AES-GCM ciphertext: the byte b     *)
(*                         under the key stream of key n (the nonce is     *)
(*                         always zero, so the stream depends on n alone)  *)
(*   [mac |-> n, of |-> c] the AES-GCM tag of the ciphertext c under key n *)
(* The cipher is ideal: a tag verifies only under the key that made it,    *)
(* and logInKeyCreate never returns a key it returned before.              *)
(***************************************************************************)
EXTENDS Integers, Sequences, FiniteSets, TLC

(***************************************************************************)
(* Bounds of the model.                                                    *)
(***************************************************************************)
\* Keys the codec is tried with on its own.
MaxKeys == 3
\* Actions of the user in one session (clicks, changes of the address bar).
MaxUserOps == 2
\* Actions of the user in a session started on the empty fragment that is
\* followed further (DeepSpec).
MaxDeepOps == 3
\* Posts a snapshot may hold.
MaxPosts == 3
\* Users a snapshot may hold.
MaxUsers == 2
\* Users a snapshot may hold in a session opened on a thread whose users
\* have taken every profile picture (FullSpec).
MaxFullUsers == 5
\* Calls of logInKeyEncrypt on its own.
MaxCalls == 2
\* Longest fragment text given to appStateGetHashBodyAndKey on its own.
MaxLen == 4
\* Latest time now() returns.
MaxTime == 1

(***************************************************************************)
(* Results of operations that may throw.                                   *)
(***************************************************************************)
Ok(v) == [ok |-> TRUE, val |-> v]

Err(e) == [ok |-> FALSE, err |-> e]

\* null (a key that is absent, sessionKeyRef before the session starts)
Null == <<[null |-> TRUE]>>

\* the string whose text is s
Str(s) == <<[ch |-> s]>>

\* the ":" between the body and the key of a keyed fragment
Delim == [ch |-> ":"]

IsKind(c, names) == DOMAIN c = names

\* F applied to the value of x, which is computed once
With(x, F(_)) == CHOOSE r \in {F(v) : v \in {x}} : TRUE

(***************************************************************************)
(* TextEncoder / TextDecoder.                                              *)
(***************************************************************************)
TextEncode(text) == [i \in 1..Len(text) |-> [u8 |-> text[i]]]

\* bytes that are no UTF-8 decode to the replacement character
TextDecode(bytes) ==
  [i \in 1..Len(bytes) |->
     IF IsKind(bytes[i], {"u8"}) THEN bytes[i].u8 ELSE [ch |-> "?"]]

(***************************************************************************)
(* lib/base64.                                                             *)
(***************************************************************************)
arrayBufferToBase64(bytes) == [i \in 1..Len(bytes) |-> [b64 |-> bytes[i]]]

base64ToArrayBuffer(text) ==
  IF \A i \in 1..Len(text) : IsKind(text[i], {"b64"})
  THEN Ok([i \in 1..Len(text) |-> text[i].b64])
  ELSE Err("MalformedText")

(***************************************************************************)
(* lib/compression.                                                        *)
(***************************************************************************)
compress(str) == <<[gz |-> With(str, TextEncode)]>>

decompress(byteArray) ==
  IF Len(byteArray) = 1 /\ IsKind(byteArray[1], {"gz"})
  THEN Ok(TextDecode(byteArray[1].gz))
  ELSE Err("CorruptStream")

compressToBase64(str) == With(compress(str), arrayBufferToBase64)

decompressBase64(base64) ==
  With(base64ToArrayBuffer(base64),
       LAMBDA bytes : IF bytes.ok THEN With(bytes.val, decompress) ELSE bytes)

(***************************************************************************)
(* JSON.stringify and JSON.parse.                                          *)
(***************************************************************************)
JsonP(s) == [p |-> s]

RECURSIVE JoinComma(_)
JoinComma(parts) ==
  IF parts = <<>> THEN <<>>
  ELSE IF Len(parts) = 1 THEN parts[1]
  ELSE parts[1] \o <<JsonP(",")>> \o JoinComma(Tail(parts))

StringifyArray(parts) ==
  <<JsonP("[")>> \o With(parts, JoinComma) \o <<JsonP("]")>>

StringifyObject(members) ==
  <<JsonP("{")>> \o With(members, JoinComma) \o <<JsonP("}")>>

Member(k, tokens) == <<[key |-> k]>> \o tokens

StringifyString(text) == <<[str |-> text]>>

StringifyNumber(n) == <<[num |-> n]>>

StringifyLike(like) ==
  StringifyObject(<<Member("username", StringifyString(like.username)),
                    Member("likedAt", StringifyNumber(like.likedAt))>>)

StringifyPost(post) ==
  StringifyObject(<<
    Member("postId", StringifyString(post.postId)),
    Member("username", StringifyString(post.username)),
    Member("createdAt", StringifyNumber(post.createdAt)),
    Member("content", StringifyString(post.content)),
    Member("replyPostIds",
           StringifyArray([i \in 1..Len(post.replyPostIds) |->
                             StringifyString(post.replyPostIds[i])])),
    Member("likes",
           StringifyArray([i \in 1..Len(post.likes) |->
                             StringifyLike(post.likes[i])]))>>)

\* a property whose value is undefined is left out: a user whose imageIndex
\* is undefined is a record without that field
StringifyUser(user) ==
  StringifyObject(
    <<Member("username", StringifyString(user.username))>>
    \o (IF "imageIndex" \in DOMAIN user
        THEN <<Member("imageIndex", StringifyNumber(user.imageIndex))>>
        ELSE <<>>)
    \o <<Member("encryptedUsername", StringifyString(user.encryptedUsername))>>)

JSONstringify(appState) ==
  StringifyObject(<<
    Member("users",
           StringifyArray([i \in 1..Len(appState.users) |->
                             StringifyUser(appState.users[i])])),
    Member("allPosts",
           StringifyArray([i \in 1..Len(appState.allPosts) |->
                             StringifyPost(appState.allPosts[i])])),
    Member("rootPostIds",
           StringifyArray([i \in 1..Len(appState.rootPostIds) |->
                             StringifyString(appState.rootPostIds[i])]))>>)

ParseFail == [ok |-> FALSE]

\* the object with the members acc; of two members of one name the later wins
ObjectOf(acc) ==
  [name \in {acc[j].k : j \in 1..Len(acc)} |->
     LET last == CHOOSE j \in 1..Len(acc) :
                   /\ acc[j].k = name
                   /\ \A l \in 1..Len(acc) : acc[l].k = name => l <= j
     IN  acc[last].v]

RECURSIVE ParseValue(_, _)
RECURSIVE ParseElements(_, _, _)
RECURSIVE ParseMembers(_, _, _)
ParseValue(t, i) ==
  IF i > Len(t) THEN ParseFail
  ELSE IF IsKind(t[i], {"str"}) THEN [ok |-> TRUE, val |-> t[i].str, next |-> i + 1]
  ELSE IF IsKind(t[i], {"num"}) THEN [ok |-> TRUE, val |-> t[i].num, next |-> i + 1]
  ELSE IF t[i] = JsonP("[")
  THEN IF i + 1 <= Len(t) /\ t[i + 1] = JsonP("]")
       THEN [ok |-> TRUE, val |-> <<>>, next |-> i + 2]
       ELSE ParseElements(t, i + 1, <<>>)
  ELSE IF t[i] = JsonP("{")
  THEN IF i + 1 <= Len(t) /\ t[i + 1] = JsonP("}")
       THEN [ok |-> TRUE, val |-> ObjectOf(<<>>), next |-> i + 2]
       ELSE ParseMembers(t, i + 1, <<>>)
  ELSE ParseFail

ParseElements(t, i, acc) ==
  With(ParseValue(t, i), LAMBDA r :
    IF ~r.ok \/ r.next > Len(t) THEN ParseFail
    ELSE IF t[r.next] = JsonP(",")
    THEN ParseElements(t, r.next + 1, Append(acc, r.val))
    ELSE IF t[r.next] = JsonP("]")
    THEN [ok |-> TRUE, val |-> Append(acc, r.val), next |-> r.next + 1]
    ELSE ParseFail)

ParseMembers(t, i, acc) ==
  IF i > Len(t) \/ ~IsKind(t[i], {"key"}) THEN ParseFail
  ELSE With(ParseValue(t, i + 1), LAMBDA r :
         IF ~r.ok \/ r.next > Len(t) THEN ParseFail
         ELSE With(Append(acc, [k |-> t[i].key, v |-> r.val]), LAMBDA acc2 :
                IF t[r.next] = JsonP(",")
                THEN ParseMembers(t, r.next + 1, acc2)
                ELSE IF t[r.next] = JsonP("}")
                THEN [ok |-> TRUE, val |-> ObjectOf(acc2), next |-> r.next + 1]
                ELSE ParseFail))

JSONparse(json) ==
  With(ParseValue(json, 1), LAMBDA r :
    IF r.ok /\ r.next = Len(json) + 1 THEN Ok(r.val) ELSE Err("SyntaxError"))

(***************************************************************************)
(* The Web Crypto calls of the log in key functions.                       *)
(***************************************************************************)
\* window.crypto.subtle.importKey("jwk", {k: logInKey, ...})
logInKeyToCryptoKey(logInKey) ==
  IF Len(logInKey) = 1 /\ IsKind(logInKey[1], {"jwk"})
  THEN Ok(logInKey[1].jwk)
  ELSE Err("BadKeyFormat")

\* window.crypto.subtle.encrypt({name: "AES-GCM", iv: new Uint8Array(12)}, ...)
AesGcmEncrypt(cryptoKey, bytes) ==
  LET body == [i \in 1..Len(bytes) |-> [ks |-> cryptoKey, pos |-> i, pt |-> bytes[i]]]
  IN  body \o <<[mac |-> cryptoKey, of |-> body]>>

\* window.crypto.subtle.decrypt({name: "AES-GCM", iv: new Uint8Array(12)}, ...)
AesGcmDecrypt(cryptoKey, encryptedBytes) ==
  LET n == Len(encryptedBytes) - 1
  IN  IF /\ n >= 0
         /\ IsKind(encryptedBytes[n + 1], {"mac", "of"})
         /\ encryptedBytes[n + 1].mac = cryptoKey
         /\ encryptedBytes[n + 1].of = SubSeq(encryptedBytes, 1, n)
         /\ \A i \in 1..n : /\ IsKind(encryptedBytes[i], {"ks", "pos", "pt"})
                            /\ encryptedBytes[i].ks = cryptoKey
                            /\ encryptedBytes[i].pos = i
      THEN Ok([i \in 1..n |-> encryptedBytes[i].pt])
      ELSE Err("AuthenticationFailed")

\* logInKeyDecrypt gone wrong: the tag is not checked against the key given,
\* the bytes are opened with the key they were sealed with
logInKeyDecrypt_Unauthenticated(logInKey, encryptedBase64) ==
  With(base64ToArrayBuffer(encryptedBase64), LAMBDA encryptedBytes :
    IF ~encryptedBytes.ok THEN encryptedBytes
    ELSE With(encryptedBytes.val, LAMBDA bytes :
           IF bytes = <<>> \/ ~IsKind(bytes[Len(bytes)], {"mac", "of"})
           THEN Err("AuthenticationFailed")
           ELSE With(AesGcmDecrypt(bytes[Len(bytes)].mac, bytes), LAMBDA decrypted2 :
                  IF decrypted2.ok THEN Ok(TextDecode(decrypted2.val))
                  ELSE decrypted2)))

logInKeyDecrypt(logInKey, encryptedBase64) ==
  With(logInKeyToCryptoKey(logInKey), LAMBDA cryptoKey :
    IF ~cryptoKey.ok THEN cryptoKey
    ELSE With(base64ToArrayBuffer(encryptedBase64), LAMBDA encryptedBytes :
           IF ~encryptedBytes.ok THEN encryptedBytes
           ELSE With(encryptedBytes.val, LAMBDA bytes :
                  With(AesGcmDecrypt(cryptoKey.val, bytes), LAMBDA decrypted2 :
                    IF decrypted2.ok THEN Ok(TextDecode(decrypted2.val))
                    ELSE decrypted2))))

logInKeyEncrypt(logInKey, value) ==
  With(logInKeyToCryptoKey(logInKey), LAMBDA cryptoKey :
    IF ~cryptoKey.ok THEN cryptoKey
    ELSE With(TextEncode(value), LAMBDA bytes :
           With(AesGcmEncrypt(cryptoKey.val, bytes), LAMBDA encrypted :
             Ok(arrayBufferToBase64(encrypted)))))

(***************************************************************************)
(* The fragment codec.                                                     *)
(***************************************************************************)
\* appStateToHashWithoutKey gone wrong: the JSON is encrypted as it is, not
\* compressed first
appStateToHashWithoutKey_Uncompressed(appState, logInKey) ==
  With(JSONstringify(appState), LAMBDA json : logInKeyEncrypt(logInKey, json))

\* appStateToHashWithoutKey gone wrong: the compressed bytes themselves are
\* handed to the cipher, not the bytes of their base64 text
appStateToHashWithoutKey_RawCompressed(appState, logInKey) ==
  With(JSONstringify(appState), LAMBDA json :
    With(logInKeyToCryptoKey(logInKey), LAMBDA cryptoKey :
      IF ~cryptoKey.ok THEN cryptoKey
      ELSE Ok(arrayBufferToBase64(AesGcmEncrypt(cryptoKey.val, compress(json))))))

appStateToHashWithoutKey(appState, logInKey) ==
  With(JSONstringify(appState), LAMBDA json :
    With(compressToBase64(json), LAMBDA compressed :
      logInKeyEncrypt(logInKey, compressed)))

appStateToHashWithKey(appState, logInKey) ==
  With(appStateToHashWithoutKey(appState, logInKey), LAMBDA hashBody :
    IF hashBody.ok THEN Ok(hashBody.val \o <<Delim>> \o logInKey) ELSE hashBody)

\* hash.split(":")
RECURSIVE SplitFrom(_, _, _)
SplitFrom(s, i, cur) ==
  IF i > Len(s) THEN <<cur>>
  ELSE IF s[i] = Delim THEN <<cur>> \o SplitFrom(s, i + 1, <<>>)
  ELSE SplitFrom(s, i + 1, Append(cur, s[i]))

split(s) == SplitFrom(s, 1, <<>>)

appStateGetHashBodyAndKey(hash) ==
  With(split(hash), LAMBDA parts :
    [encryptedBody |-> parts[1],
     key |-> IF Len(parts) >= 2 THEN parts[2] ELSE Null])

\* appStateHashHasKey gone wrong: any fragment that is not empty passes
appStateHashHasKey_NonEmpty(hash) == hash # <<>>

appStateHashHasKey(hash) == appStateGetHashBodyAndKey(hash).key # Null

appStateFromHashWithoutKey(encryptedHashBody, logInKey) ==
  With(logInKeyDecrypt(logInKey, encryptedHashBody), LAMBDA compressed :
    IF ~compressed.ok THEN compressed
    ELSE With(decompressBase64(compressed.val), LAMBDA json :
           IF ~json.ok THEN json ELSE With(json.val, JSONparse)))

appStateFromHashWithKey(hash) ==
  With(appStateGetHashBodyAndKey(hash), LAMBDA bodyAndKey :
    IF bodyAndKey.key = Null THEN Err("Error")
    ELSE With(bodyAndKey.encryptedBody, LAMBDA encryptedBody :
           With(bodyAndKey.key, LAMBDA key :
             appStateFromHashWithoutKey(encryptedBody, key))))

(***************************************************************************)
(* State.                                                                  *)
(***************************************************************************)
VARIABLES
  \* the session (useHashAppState, IndexPage, PostsPage)
  hash,          \* getHash(): the location fragment
  mountHash,     \* the hash the first render saw (the closure of useEffectOnce)
  effectHash,    \* the hash the last run of the hash effect saw (its dependency)
  appState,      \* the in-memory snapshot (useState)
  isLoaded,      \* isLoadedRef.current
  sessionKey,    \* sessionKeyRef.current
  mountPc,       \* where the async function of useEffectOnce stands
  saving,        \* snapshots whose appStateToHashWithoutKey is pending (setAppState)
  decoding,      \* hashes whose appStateFromHashWithoutKey is pending (hash effect)
  alerts,        \* the message of the last alert(), "" if there was none
  consoleErrors, \* the last rejection promiseDone has logged, "" if none
  actingUser,    \* <<>> or <<user>>: PostsPage's actingUser
  timers,        \* users whose setTimeout(() => setActingUser(user)) is pending
  creating,      \* <<>> or <<task>>: an onCreate awaiting logInKeyEncrypt
  keysMade,      \* how many keys logInKeyCreate has generated
  shareLink,     \* IndexPage's shareLink (the fragment of the share URL)
  shareStale,    \* appState changed since the share effect last ran
  encLog,        \* every AES-GCM encryption so far: [key, plaintext]
  installed,     \* every fragment setAppState has installed: [hash, appState]
  userOps,       \* how many times the user has acted (clicks, address bar)
  opsAllowed,    \* how many times the user acts at most in this session
  usersAllowed,  \* how many users a snapshot has at most in this session
  isNeedLogInModal, \* PostsPage's isNeedLogInModal: the prompt to log in shows
  \* appStateGetHashBodyAndKey on its own
  splitIn, splitOut,
  \* encode then decode on its own
  codecIn, codecKey, codecKey2, codecHash, codecOut, codecPc,
  \* logInKeyEncrypt on its own: the calls so far, [logInKey, value, out]
  proofCalls

sessionVars ==
  <<hash, mountHash, effectHash, appState, isLoaded, sessionKey, mountPc, saving,
    decoding, alerts, consoleErrors, actingUser, timers, creating, keysMade,
    shareLink, shareStale, encLog, installed, userOps, opsAllowed, usersAllowed,
    isNeedLogInModal>>

splitVars == <<splitIn, splitOut>>

codecVars == <<codecIn, codecKey, codecKey2, codecHash, codecOut, codecPc>>

proofVars == <<proofCalls>>

vars == <<sessionVars, splitVars, codecVars, proofVars>>

(***************************************************************************)
(* Snapshots.                                                              *)
(***************************************************************************)
\* the exported text of key number n
KeyText(n) == <<[jwk |-> n]>>

\* keys of other sessions: the key of the share link this session is opened
\* with, and the log in key of a user of that thread
ForeignShareKey == KeyText(0 - 1)

ForeignLogInKey == KeyText(0 - 2)

initialAppState ==
  [users |-> <<[username |-> Str("iamyarn"), imageIndex |-> 0,
                encryptedUsername |-> <<>>]>>,
   allPosts |-> <<[postId |-> Str("xrj391"), username |-> Str("iamyarn"),
                   createdAt |-> 0, content |-> Str("Hi I'm Yarn!"),
                   replyPostIds |-> <<>>, likes |-> <<>>]>>,
   rootPostIds |-> <<Str("xrj391")>>]

UserRoot ==
  [username |-> Str("root"), imageIndex |-> 1,
   encryptedUsername |-> logInKeyEncrypt(ForeignLogInKey, Str("root")).val]

PostOf(id, replyPostIds, likes) ==
  [postId |-> Str(id), username |-> Str("root"), createdAt |-> 1,
   content |-> Str("hello"), replyPostIds |-> replyPostIds, likes |-> likes]

\* the thread another session shared: one user, one post
ForeignSnapshot ==
  [users |-> <<UserRoot>>,
   allPosts |-> <<PostOf("p1", <<>>, <<>>)>>,
   rootPostIds |-> <<Str("p1")>>]

(***************************************************************************)
(* appStateGetHashBodyAndKey on its own: any fragment text.                *)
(***************************************************************************)
SplitAlphabet == {[ch |-> "a"], [ch |-> "b"], Delim}

SplitInputs == UNION {[1..n -> SplitAlphabet] : n \in 0..MaxLen}

SessionOff ==
  /\ hash = <<>> /\ mountHash = <<>> /\ effectHash = <<>>
  /\ appState = initialAppState /\ isLoaded = FALSE /\ sessionKey = Null
  /\ mountPc = "off" /\ saving = {} /\ decoding = {} /\ alerts = ""
  /\ consoleErrors = "" /\ actingUser = <<>> /\ timers = {} /\ creating = <<>>
  /\ keysMade = 0 /\ shareLink = <<>> /\ shareStale = FALSE /\ encLog = {}
  /\ installed = {} /\ userOps = 0 /\ opsAllowed = 0 /\ usersAllowed = 0
  /\ isNeedLogInModal = FALSE

SplitOff == splitIn = <<>> /\ splitOut = [done |-> FALSE]

CodecOff ==
  /\ codecIn = initialAppState /\ codecKey = Null /\ codecKey2 = Null
  /\ codecHash = <<>> /\ codecOut = Err("none") /\ codecPc = "off"

ProofOff == proofCalls = <<>>

SplitInit ==
  /\ SessionOff /\ CodecOff /\ ProofOff
  /\ splitIn \in SplitInputs
  /\ splitOut = [done |-> FALSE]

SplitCall ==
  /\ ~splitOut.done
  /\ splitOut' = [done |-> TRUE, result |-> appStateGetHashBodyAndKey(splitIn)]
  /\ UNCHANGED <<splitIn, sessionVars, codecVars, proofVars>>

SplitNext == SplitCall

SplitSpec == SplitInit /\ [][SplitNext]_vars

(***************************************************************************)
(* Encode then decode on its own: any snapshot, any two keys.              *)
(***************************************************************************)
CodecLike == [username |-> Str("root"), likedAt |-> 2]

CodecUsers == {<<>>, <<UserRoot>>, <<initialAppState.users[1], UserRoot>>}

CodecPosts ==
  {<<>>} \cup
  {<<PostOf("p1", <<>>, likes)>> : likes \in {<<>>, <<CodecLike>>}} \cup
  {<<PostOf("p1", replies, likes), PostOf("p2", <<>>, <<>>)>> :
     replies \in {<<>>, <<Str("p2")>>}, likes \in {<<>>, <<CodecLike>>}}

CodecRoots == {<<>>, <<Str("p1")>>, <<Str("p1"), Str("p2")>>, <<Str("p2"), Str("p1")>>}

CodecSnapshots ==
  {s \in [users : CodecUsers, allPosts : CodecPosts, rootPostIds : CodecRoots] :
     \A i \in 1..Len(s.rootPostIds) :
       \E j \in 1..Len(s.allPosts) : s.allPosts[j].postId = s.rootPostIds[i]}

CodecKeys == {KeyText(n) : n \in 1..MaxKeys}

CodecInit ==
  /\ SessionOff /\ SplitOff /\ ProofOff
  /\ codecIn \in CodecSnapshots
  /\ codecKey \in CodecKeys
  /\ codecKey2 \in CodecKeys
  /\ codecHash = <<>>
  /\ codecOut = Err("none")
  /\ codecPc = "start"

CodecEncode ==
  /\ codecPc = "start"
  /\ codecHash' = appStateToHashWithoutKey(codecIn, codecKey).val
  /\ codecPc' = "encoded"
  /\ UNCHANGED <<codecIn, codecKey, codecKey2, codecOut, sessionVars, splitVars, proofVars>>

CodecDecode ==
  /\ codecPc = "encoded"
  /\ codecOut' = appStateFromHashWithoutKey(codecHash, codecKey2)
  /\ codecPc' = "decoded"
  /\ UNCHANGED <<codecIn, codecKey, codecKey2, codecHash, sessionVars, splitVars, proofVars>>

CodecNext == CodecEncode \/ CodecDecode

CodecSpec == CodecInit /\ [][CodecNext]_vars

(***************************************************************************)
(* logInKeyEncrypt on its own: calls one after the other.                  *)
(***************************************************************************)
ProofKeys == CodecKeys

\* usernames: the empty one, two of one character, one of two characters
ProofValues == {<<>>, Str("a"), Str("b"), Str("a") \o Str("b")}

ProofInit ==
  /\ SessionOff /\ SplitOff /\ CodecOff
  /\ proofCalls = <<>>

\* ProofCall gone wrong: the iv is not the fixed one, every call has its own
\* and puts it in front of the encrypted bytes
ProofCall_FreshIv ==
  /\ Len(proofCalls) < MaxCalls
  /\ \E logInKey \in ProofKeys, value \in ProofValues :
       proofCalls' =
         Append(proofCalls,
                [logInKey |-> logInKey, value |-> value,
                 out |-> Ok(<<[b64 |-> [iv |-> Len(proofCalls)]]>>
                            \o logInKeyEncrypt(logInKey, value).val)])
  /\ UNCHANGED <<sessionVars, splitVars, codecVars>>

ProofCall ==
  /\ Len(proofCalls) < MaxCalls
  /\ \E logInKey \in ProofKeys, value \in ProofValues :
       proofCalls' = Append(proofCalls, [logInKey |-> logInKey, value |-> value,
                                         out |-> logInKeyEncrypt(logInKey, value)])
  /\ UNCHANGED <<sessionVars, splitVars, codecVars>>

ProofNext == ProofCall

ProofSpec == ProofInit /\ [][ProofNext]_vars

(***************************************************************************)
(* The session: useHashAppState, IndexPage and PostsPage.                  *)
(***************************************************************************)
\* the share link of another session's thread
ForeignLink == appStateToHashWithKey(ForeignSnapshot, ForeignShareKey).val

\* the same thread as that session's address bar shows it: no key
ForeignBody == appStateToHashWithoutKey(ForeignSnapshot, ForeignShareKey).val

\* the link with a key that is not the one it was made with
WrongKeyLink == ForeignBody \o <<Delim>> \o ForeignLogInKey

\* fragments a session may be opened with
InitHashes == {<<>>, ForeignLink, ForeignBody, WrongKeyLink}

\* fragments the user may put in the address bar of an open session
UserHashes == {<<>>, ForeignLink, ForeignBody}

NewUsernames == {Str("alice")}

NewPostIds == {Str("n1"), Str("n2")}

\* const POST_SIZE_LIMIT = 500
POST_SIZE_LIMIT == 500

\* a text the user types is a sequence of pieces: [ch |-> s] stands for the
\* characters of s, [run |-> c, n |-> k] for the character c typed k times
TextLength(text) ==
  LET RECURSIVE Sum(_)
      Sum(i) == IF i = 0 THEN 0
                ELSE Sum(i - 1) + (IF IsKind(text[i], {"run", "n"}) THEN text[i].n
                                   ELSE Len(text[i].ch))
  IN  Sum(Len(text))

IsSpace(c) == c = [ch |-> " "]

\* String.prototype.trim
RECURSIVE trim(_)
trim(text) ==
  IF text = <<>> THEN <<>>
  ELSE IF IsSpace(text[1]) THEN trim(Tail(text))
  ELSE IF IsSpace(text[Len(text)]) THEN trim(SubSeq(text, 1, Len(text) - 1))
  ELSE text

\* what the user may have typed into the textarea of a post modal: a word,
\* a word between blanks, a blank, one character more than the limit
NewContents ==
  {Str("hello"), Str(" ") \o Str("hello") \o Str(" "), Str(" "),
   <<[run |-> "x", n |-> POST_SIZE_LIMIT + 1]>>}

\* the ids a post of a thread may have
PostIds == {Str("xrj391"), Str("p1")} \cup NewPostIds

Times == 1..MaxTime

\* getProfilePictures().map((_, i) => i)
ProfilePictureIndexes == 0..3

\* the first render of a session opened on the fragment h
SessionStart(h, ops, users) ==
  /\ SplitOff /\ CodecOff /\ ProofOff
  /\ hash = h
  /\ mountHash = hash
  /\ effectHash = hash
  /\ appState = initialAppState
  /\ isLoaded = FALSE
  /\ sessionKey = Null
  /\ mountPc = "start"
  /\ saving = {}
  /\ decoding = {}
  /\ alerts = ""
  /\ consoleErrors = ""
  /\ actingUser = <<>>
  /\ timers = {}
  /\ creating = <<>>
  /\ keysMade = 0
  /\ shareLink = <<>>
  /\ shareStale = TRUE
  /\ encLog = {}
  /\ installed = {}
  /\ userOps = 0
  /\ opsAllowed = ops
  /\ usersAllowed = users
  /\ isNeedLogInModal = FALSE

Init == \E h \in InitHashes : SessionStart(h, MaxUserOps, MaxUsers)

\* the key logInKeyCreate returns next
logInKeyCreate == KeyText(keysMade + 1)

\* the plaintext appStateToHashWithoutKey hands to the cipher
PlaintextOf(snapshot) == TextEncode(compressToBase64(JSONstringify(snapshot)))

EncryptionOf(logInKey, plaintext) ==
  [key |-> logInKeyToCryptoKey(logInKey).val, plaintext |-> plaintext]

\* the messages of useEffectOnce's alerts
NoKeyMessage ==
  "Could not load thread. Make sure the link was generated using the share feature and not copy and pasted from the browser address bar."

BadLinkMessage == "Could not load thread. Something is wrong with the shared link."

\* setAppState gone wrong: isLoadedRef is not looked at
setAppState_Unguarded(snapshot) ==
  /\ saving' = saving \cup {[appState |-> snapshot, logInKey |-> sessionKey]}
  /\ alerts' = alerts

\* useHashAppState's setAppState, up to its await
setAppState(snapshot) ==
  IF ~isLoaded
  THEN /\ alerts' = "Error! Attempted to setAppSate before appState was loaded."
       /\ saving' = saving
  ELSE /\ saving' = saving \cup {[appState |-> snapshot, logInKey |-> sessionKey]}
       /\ alerts' = alerts

\* useEffectOnce: the session key is created; an empty or keyless fragment
\* ends the load, a keyed one is handed to appStateFromHashWithKey
MountStart ==
  /\ mountPc = "start"
  /\ ~shareStale
  /\ sessionKey' = logInKeyCreate
  /\ keysMade' = keysMade + 1
  /\ IF mountHash = <<>>
     THEN /\ isLoaded' = TRUE
          /\ appState' = initialAppState
          /\ mountPc' = "done"
          /\ alerts' = alerts
     ELSE IF ~appStateHashHasKey(mountHash)
     THEN /\ alerts' = NoKeyMessage
          /\ appState' = initialAppState
          /\ isLoaded' = TRUE
          /\ mountPc' = "done"
     ELSE /\ mountPc' = "decoding"
          /\ UNCHANGED <<isLoaded, appState, alerts>>
  /\ UNCHANGED <<hash, mountHash, effectHash, saving, decoding, consoleErrors,
                 actingUser, timers, creating, shareLink, shareStale, encLog,
                 installed, userOps, opsAllowed, usersAllowed, splitVars, codecVars, proofVars,
                 isNeedLogInModal>>

\* MountDecoded gone wrong: the session adopts the key of the fragment
MountDecoded_AdoptKey ==
  /\ mountPc = "decoding"
  /\ ~shareStale
  /\ mountPc' = "done"
  /\ isLoaded' = TRUE
  /\ LET opened == appStateFromHashWithKey(mountHash)
     IN  IF opened.ok
         THEN /\ sessionKey' = appStateGetHashBodyAndKey(mountHash).key
              /\ saving' = saving \cup {[appState |-> opened.val,
                                         logInKey |-> sessionKey']}
              /\ UNCHANGED <<appState, alerts>>
         ELSE /\ alerts' = BadLinkMessage
              /\ appState' = initialAppState
              /\ saving' = saving
              /\ sessionKey' = sessionKey
  /\ UNCHANGED <<hash, mountHash, effectHash, decoding, consoleErrors,
                 actingUser, timers, creating, keysMade, shareLink, shareStale,
                 encLog, installed, userOps, opsAllowed, usersAllowed, splitVars, codecVars, proofVars,
                 isNeedLogInModal>>

\* useEffectOnce: appStateFromHashWithKey(hash) has settled
MountDecoded ==
  /\ mountPc = "decoding"
  /\ ~shareStale
  /\ mountPc' = "done"
  /\ isLoaded' = TRUE
  /\ LET opened == appStateFromHashWithKey(mountHash)
     IN  IF opened.ok
         THEN /\ saving' = saving \cup {[appState |-> opened.val, logInKey |-> sessionKey]}
              /\ UNCHANGED <<appState, alerts>>
         ELSE /\ alerts' = BadLinkMessage
              /\ appState' = initialAppState
              /\ saving' = saving
  /\ UNCHANGED <<hash, mountHash, effectHash, sessionKey, decoding, consoleErrors,
                 actingUser, timers, creating, keysMade, shareLink, shareStale,
                 encLog, installed, userOps, opsAllowed, usersAllowed, splitVars, codecVars, proofVars,
                 isNeedLogInModal>>

\* SaveDone gone wrong: the fragment installed carries the key
SaveDone_Keyed(task) ==
  /\ task \in saving
  /\ ~shareStale
  /\ saving' = saving \ {task}
  /\ LET newHash == appStateToHashWithKey(task.appState, task.logInKey)
     IN  /\ newHash.ok
         /\ hash' = newHash.val
         /\ installed' = installed \cup {[hash |-> newHash.val, appState |-> task.appState]}
  /\ encLog' = encLog \cup {EncryptionOf(task.logInKey, PlaintextOf(task.appState))}
  /\ UNCHANGED <<mountHash, effectHash, appState, isLoaded, sessionKey, mountPc,
                 decoding, alerts, consoleErrors, actingUser, timers, creating,
                 keysMade, shareLink, shareStale, userOps, opsAllowed, usersAllowed, splitVars, codecVars, proofVars,
                 isNeedLogInModal>>

\* setAppState after its await: the new fragment is installed
SaveDone(task) ==
  /\ task \in saving
  /\ ~shareStale
  /\ saving' = saving \ {task}
  /\ LET newHash == appStateToHashWithoutKey(task.appState, task.logInKey)
     IN  /\ newHash.ok
         /\ hash' = newHash.val
         /\ installed' = installed \cup {[hash |-> newHash.val, appState |-> task.appState]}
  /\ encLog' = encLog \cup {EncryptionOf(task.logInKey, PlaintextOf(task.appState))}
  /\ UNCHANGED <<mountHash, effectHash, appState, isLoaded, sessionKey, mountPc,
                 decoding, alerts, consoleErrors, actingUser, timers, creating,
                 keysMade, shareLink, shareStale, userOps, opsAllowed, usersAllowed, splitVars, codecVars, proofVars,
                 isNeedLogInModal>>

\* the effect on [hash]: runs when a render sees another hash
HashEffect ==
  /\ hash # effectHash
  /\ ~shareStale
  /\ effectHash' = hash
  /\ IF ~isLoaded
     THEN UNCHANGED <<appState, decoding, shareStale>>
     ELSE IF hash = <<>>
     THEN /\ appState' = initialAppState
          /\ shareStale' = (shareStale \/ appState # initialAppState)
          /\ decoding' = decoding
     ELSE /\ decoding' = decoding \cup {[hash |-> hash, logInKey |-> sessionKey]}
          /\ UNCHANGED <<appState, shareStale>>
  /\ UNCHANGED <<hash, mountHash, isLoaded, sessionKey, mountPc, saving, alerts,
                 consoleErrors, actingUser, timers, creating, keysMade, shareLink,
                 encLog, installed, userOps, opsAllowed, usersAllowed, splitVars, codecVars, proofVars,
                 isNeedLogInModal>>

\* DecodeDone gone wrong: the decoded snapshot is dropped
DecodeDone_Dropped(task) ==
  /\ task \in decoding
  /\ ~shareStale
  /\ decoding' = decoding \ {task}
  /\ LET newAppState == appStateFromHashWithoutKey(task.hash, task.logInKey)
     IN  IF newAppState.ok
         THEN consoleErrors' = consoleErrors
         ELSE consoleErrors' = newAppState.err
  /\ UNCHANGED <<hash, mountHash, effectHash, appState, isLoaded, sessionKey, mountPc,
                 saving, alerts, actingUser, timers, creating, keysMade, shareLink,
                 shareStale, encLog, installed, userOps, opsAllowed, usersAllowed, splitVars, codecVars, proofVars,
                 isNeedLogInModal>>

\* DecodeDone gone wrong: a failing decode has emptied rootPostIds
DecodeDone_Partial(task) ==
  /\ task \in decoding
  /\ ~shareStale
  /\ decoding' = decoding \ {task}
  /\ LET newAppState == appStateFromHashWithoutKey(task.hash, task.logInKey)
     IN  IF newAppState.ok
         THEN /\ appState' = newAppState.val
              /\ shareStale' = TRUE
              /\ consoleErrors' = consoleErrors
         ELSE /\ consoleErrors' = newAppState.err
              /\ appState' = [appState EXCEPT !.rootPostIds = <<>>]
              /\ UNCHANGED shareStale
  /\ UNCHANGED <<hash, mountHash, effectHash, isLoaded, sessionKey, mountPc, saving,
                 alerts, actingUser, timers, creating, keysMade, shareLink, encLog,
                 installed, userOps, opsAllowed, usersAllowed, splitVars, codecVars, proofVars,
                 isNeedLogInModal>>

\* the effect on [hash]: appStateFromHashWithoutKey has settled; a rejection
\* goes to promiseDone, which logs it
DecodeDone(task) ==
  /\ task \in decoding
  /\ ~shareStale
  /\ decoding' = decoding \ {task}
  /\ LET newAppState == appStateFromHashWithoutKey(task.hash, task.logInKey)
     IN  IF newAppState.ok
         THEN /\ appState' = newAppState.val
              /\ shareStale' = TRUE
              /\ consoleErrors' = consoleErrors
         ELSE /\ consoleErrors' = newAppState.err
              /\ UNCHANGED <<appState, shareStale>>
  /\ UNCHANGED <<hash, mountHash, effectHash, isLoaded, sessionKey, mountPc, saving,
                 alerts, actingUser, timers, creating, keysMade, shareLink, encLog,
                 installed, userOps, opsAllowed, usersAllowed, splitVars, codecVars, proofVars,
                 isNeedLogInModal>>

\* the user changes the fragment in the address bar
UserSetHash(h) ==
  /\ h # hash
  /\ ~shareStale
  /\ userOps < opsAllowed
  /\ userOps' = userOps + 1
  /\ hash' = h
  /\ UNCHANGED <<mountHash, effectHash, appState, isLoaded, sessionKey, mountPc,
                 saving, decoding, alerts, consoleErrors, actingUser, timers,
                 creating, keysMade, shareLink, shareStale, encLog, installed,
                 opsAllowed, usersAllowed, splitVars, codecVars, proofVars,
                 isNeedLogInModal>>

\* ShareEffect gone wrong: the share link is made with the session key
ShareEffect_SessionKey ==
  /\ shareStale
  /\ keysMade' = keysMade + 1
  /\ LET logInKey == IF sessionKey = Null THEN logInKeyCreate ELSE sessionKey
     IN  /\ shareLink' = appStateToHashWithKey(appState, logInKey).val
         /\ encLog' = encLog \cup {EncryptionOf(logInKey, PlaintextOf(appState))}
  /\ shareStale' = FALSE
  /\ UNCHANGED <<hash, mountHash, effectHash, appState, isLoaded, sessionKey,
                 mountPc, saving, decoding, alerts, consoleErrors, actingUser,
                 timers, creating, installed, userOps, opsAllowed, usersAllowed, splitVars,
                 codecVars, proofVars,
                 isNeedLogInModal>>

\* ShareEffect gone wrong: the key of the share link replaces the session key
ShareEffect_Rekey ==
  /\ shareStale
  /\ keysMade' = keysMade + 1
  /\ shareLink' = appStateToHashWithKey(appState, logInKeyCreate).val
  /\ shareStale' = FALSE
  /\ sessionKey' = logInKeyCreate
  /\ encLog' = encLog \cup {EncryptionOf(logInKeyCreate, PlaintextOf(appState))}
  /\ UNCHANGED <<hash, mountHash, effectHash, appState, isLoaded,
                 mountPc, saving, decoding, alerts, consoleErrors, actingUser,
                 timers, creating, installed, userOps, opsAllowed, usersAllowed, splitVars, codecVars, proofVars,
                 isNeedLogInModal>>

\* IndexPage's effect on [appState]: a share link with a key of its own
ShareEffect ==
  /\ shareStale
  /\ keysMade' = keysMade + 1
  /\ shareLink' = appStateToHashWithKey(appState, logInKeyCreate).val
  /\ shareStale' = FALSE
  /\ encLog' = encLog \cup {EncryptionOf(logInKeyCreate, PlaintextOf(appState))}
  /\ UNCHANGED <<hash, mountHash, effectHash, appState, isLoaded, sessionKey,
                 mountPc, saving, decoding, alerts, consoleErrors, actingUser,
                 timers, creating, installed, userOps, opsAllowed, usersAllowed, splitVars, codecVars, proofVars,
                 isNeedLogInModal>>

\* generatePostId gone wrong: the posts of the snapshot are not looked at
generatePostId_Unchecked(snapshot) == NewPostIds

\* generatePostId: an id no post of the snapshot has
generatePostId(snapshot) ==
  {id \in NewPostIds :
     \A j \in 1..Len(snapshot.allPosts) : snapshot.allPosts[j].postId # id}

\* NewThread gone wrong: the id is listed, the post is not stored
NewThread_IdOnly(id, content, t) ==
  /\ actingUser # <<>>
  /\ ~isNeedLogInModal
  /\ ~shareStale
  /\ userOps < opsAllowed
  /\ userOps' = userOps + 1
  /\ Len(appState.allPosts) < MaxPosts
  /\ trim(content) # <<>> /\ POST_SIZE_LIMIT - TextLength(content) >= 0
  /\ id \in generatePostId(appState)
  /\ LET newPost == [postId |-> id, username |-> actingUser[1].username,
                     createdAt |-> t, content |-> trim(content),
                     likes |-> <<>>, replyPostIds |-> <<>>]
     IN  setAppState([appState EXCEPT !.rootPostIds = Append(@, id)])
  /\ UNCHANGED <<hash, mountHash, effectHash, appState, isLoaded, sessionKey,
                 mountPc, decoding, consoleErrors, actingUser, timers, creating,
                 keysMade, shareLink, shareStale, encLog, installed, opsAllowed, usersAllowed, splitVars,
                 codecVars, proofVars,
                 isNeedLogInModal>>

\* NewThreadModal's onPost, which returns if isDisabled, then PostsPage's
NewThread(id, content, t) ==
  /\ actingUser # <<>>
  /\ ~isNeedLogInModal
  /\ ~shareStale
  /\ userOps < opsAllowed
  /\ userOps' = userOps + 1
  /\ Len(appState.allPosts) < MaxPosts
  /\ trim(content) # <<>> /\ POST_SIZE_LIMIT - TextLength(content) >= 0
  /\ id \in generatePostId(appState)
  /\ LET newPost == [postId |-> id, username |-> actingUser[1].username,
                     createdAt |-> t, content |-> trim(content),
                     likes |-> <<>>, replyPostIds |-> <<>>]
     IN  setAppState([appState EXCEPT !.allPosts = Append(@, newPost),
                                      !.rootPostIds = Append(@, id)])
  /\ UNCHANGED <<hash, mountHash, effectHash, appState, isLoaded, sessionKey,
                 mountPc, decoding, consoleErrors, actingUser, timers, creating,
                 keysMade, shareLink, shareStale, encLog, installed, opsAllowed, usersAllowed, splitVars,
                 codecVars, proofVars,
                 isNeedLogInModal>>

\* getPost: the index of the post in allPosts, 0 if there is none
getPost(snapshot, postId) ==
  LET found == {j \in 1..Len(snapshot.allPosts) : snapshot.allPosts[j].postId = postId}
  IN  IF found = {} THEN 0 ELSE CHOOSE j \in found : \A l \in found : j <= l

\* the post is listed in rootPostIds
isRootPost(snapshot, postId) ==
  \E j \in 1..Len(snapshot.rootPostIds) : snapshot.rootPostIds[j] = postId

\* Reply gone wrong: the id of the reply is pushed to rootPostIds as well
Reply_AsRoot(replyingToPostId, id, content, t) ==
  /\ actingUser # <<>>
  /\ ~isNeedLogInModal
  /\ ~shareStale
  /\ userOps < opsAllowed
  /\ userOps' = userOps + 1
  /\ Len(appState.allPosts) < MaxPosts
  /\ getPost(appState, replyingToPostId) # 0
  /\ isRootPost(appState, replyingToPostId)
  /\ \E viaCtrlEnter \in BOOLEAN : viaCtrlEnter \/ trim(content) # <<>>
  /\ id \in generatePostId(appState)
  /\ LET newPost == [postId |-> id, username |-> actingUser[1].username,
                     createdAt |-> t, content |-> trim(content),
                     likes |-> <<>>, replyPostIds |-> <<>>]
         j == getPost(appState, replyingToPostId)
     IN  setAppState([appState EXCEPT
                        !.allPosts = Append([@ EXCEPT ![j].replyPostIds = Append(@, id)],
                                            newPost),
                        !.rootPostIds = Append(@, id)])
  /\ UNCHANGED <<hash, mountHash, effectHash, appState, isLoaded, sessionKey,
                 mountPc, decoding, consoleErrors, actingUser, timers, creating,
                 keysMade, shareLink, shareStale, encLog, installed, opsAllowed, usersAllowed, splitVars,
                 codecVars, proofVars,
                 isNeedLogInModal>>

\* ReplyModal's onPost, the modal having been opened on a post of the thread:
\* the views offer the reply button on root posts only (PostsView lists
\* rootPostIds, SearchView and FavoriteView pass no onReply for a post that
\* has a parent, PostDetailView replies to the selected post, which is a
\* root post).  ReplyModal's Post button is disabled while the trimmed
\* content is empty; Ctrl+Enter calls its onPost whatever the content
Reply(replyingToPostId, id, content, t) ==
  /\ actingUser # <<>>
  /\ ~isNeedLogInModal
  /\ ~shareStale
  /\ userOps < opsAllowed
  /\ userOps' = userOps + 1
  /\ Len(appState.allPosts) < MaxPosts
  /\ getPost(appState, replyingToPostId) # 0
  /\ isRootPost(appState, replyingToPostId)
  /\ \E viaCtrlEnter \in BOOLEAN : viaCtrlEnter \/ trim(content) # <<>>
  /\ id \in generatePostId(appState)
  /\ LET newPost == [postId |-> id, username |-> actingUser[1].username,
                     createdAt |-> t, content |-> trim(content),
                     likes |-> <<>>, replyPostIds |-> <<>>]
         j == getPost(appState, replyingToPostId)
     IN  setAppState([appState EXCEPT
                        !.allPosts = Append([@ EXCEPT ![j].replyPostIds = Append(@, id)],
                                            newPost)])
  /\ UNCHANGED <<hash, mountHash, effectHash, appState, isLoaded, sessionKey,
                 mountPc, decoding, consoleErrors, actingUser, timers, creating,
                 keysMade, shareLink, shareStale, encLog, installed, opsAllowed, usersAllowed, splitVars,
                 codecVars, proofVars,
                 isNeedLogInModal>>

\* togglePostLike gone wrong: with no acting user the like is recorded
\* under the empty username
togglePostLike_Guest(snapshot, postId, t) ==
  LET j == getPost(snapshot, postId)
      likes == snapshot.allPosts[j].likes
      username == IF actingUser = <<>> THEN <<>> ELSE actingUser[1].username
  IN  IF \E l \in 1..Len(likes) : likes[l].username = username
      THEN [snapshot EXCEPT !.allPosts[j].likes =
              SelectSeq(likes, LAMBDA o : o.username # username)]
      ELSE [snapshot EXCEPT !.allPosts[j].likes =
              Append(likes, [username |-> username, likedAt |-> t])]

\* togglePostLike gone wrong: the like is pushed whether or not it is there
togglePostLike_AlwaysAdd(snapshot, postId, t) ==
  IF actingUser = <<>> THEN snapshot
  ELSE LET j == getPost(snapshot, postId)
       IN  [snapshot EXCEPT !.allPosts[j].likes =
              Append(@, [username |-> actingUser[1].username, likedAt |-> t])]

\* togglePostLike on the draft of the snapshot
togglePostLike(snapshot, postId, t) ==
  IF actingUser = <<>> THEN snapshot
  ELSE LET j == getPost(snapshot, postId)
           likes == snapshot.allPosts[j].likes
       IN  IF \E l \in 1..Len(likes) : likes[l].username = actingUser[1].username
           THEN [snapshot EXCEPT !.allPosts[j].likes =
                   SelectSeq(likes, LAMBDA o : o.username # actingUser[1].username)]
           ELSE [snapshot EXCEPT !.allPosts[j].likes =
                   Append(likes, [username |-> actingUser[1].username, likedAt |-> t])]

\* showNewThreadModal with no acting user: the prompt to log in is shown
\* (with an acting user the modal opens, and NewThread is its onPost)
showNewThreadModal ==
  /\ actingUser = <<>>
  /\ ~isNeedLogInModal
  /\ ~shareStale
  /\ userOps < opsAllowed
  /\ userOps' = userOps + 1
  /\ isNeedLogInModal' = TRUE
  /\ UNCHANGED <<hash, mountHash, effectHash, appState, isLoaded, sessionKey,
                 mountPc, saving, decoding, alerts, consoleErrors, actingUser,
                 timers, creating, keysMade, shareLink, shareStale, encLog,
                 installed, opsAllowed, usersAllowed, splitVars, codecVars, proofVars>>

\* onReply with no acting user: showReplyModal shows the prompt to log in
\* (with an acting user the modal opens, and Reply is its onPost)
showReplyModal(postId) ==
  /\ actingUser = <<>>
  /\ ~isNeedLogInModal
  /\ ~shareStale
  /\ userOps < opsAllowed
  /\ userOps' = userOps + 1
  /\ getPost(appState, postId) # 0
  /\ isRootPost(appState, postId)
  /\ isNeedLogInModal' = TRUE
  /\ UNCHANGED <<hash, mountHash, effectHash, appState, isLoaded, sessionKey,
                 mountPc, saving, decoding, alerts, consoleErrors, actingUser,
                 timers, creating, keysMade, shareLink, shareStale, encLog,
                 installed, opsAllowed, usersAllowed, splitVars, codecVars, proofVars>>

\* NeedLogInModal's onHide: Cancel, the backdrop or Escape
hideNeedLogInModal ==
  /\ isNeedLogInModal
  /\ ~shareStale
  /\ userOps < opsAllowed
  /\ userOps' = userOps + 1
  /\ isNeedLogInModal' = FALSE
  /\ UNCHANGED <<hash, mountHash, effectHash, appState, isLoaded, sessionKey,
                 mountPc, saving, decoding, alerts, consoleErrors, actingUser,
                 timers, creating, keysMade, shareLink, shareStale, encLog,
                 installed, opsAllowed, usersAllowed, splitVars, codecVars, proofVars>>

\* onLike of a post of the thread
Like(postId, t) ==
  /\ ~shareStale
  /\ ~isNeedLogInModal
  /\ userOps < opsAllowed
  /\ userOps' = userOps + 1
  /\ getPost(appState, postId) # 0
  /\ setAppState(togglePostLike(appState, postId, t))
  /\ isNeedLogInModal' = (actingUser = <<>>)
  /\ UNCHANGED <<hash, mountHash, effectHash, appState, isLoaded, sessionKey,
                 mountPc, decoding, consoleErrors, actingUser, timers, creating,
                 keysMade, shareLink, shareStale, encLog, installed, opsAllowed, usersAllowed, splitVars,
                 codecVars, proofVars>>

\* LogInModal: the pictures no user of the snapshot has
availablePictureIndexes(snapshot) ==
  {i \in ProfilePictureIndexes :
     \A j \in 1..Len(snapshot.users) :
       "imageIndex" \in DOMAIN snapshot.users[j] => snapshot.users[j].imageIndex # i}

\* LogInModal's selectedProfilePictureIndex, <<i>> or <<>> for undefined: the
\* effect on [availablePictureIndexes], an array made anew by every render,
\* sets it to availablePictureIndexes[0] after every render
selectedProfilePictureIndex(snapshot) ==
  IF availablePictureIndexes(snapshot) = {} THEN <<>>
  ELSE <<CHOOSE i \in availablePictureIndexes(snapshot) :
           \A l \in availablePictureIndexes(snapshot) : i <= l>>

SelectedPictures == {<<>>} \cup {<<i>> : i \in ProfilePictureIndexes}

\* the User object onCreate builds
NewUser(username, selected, encryptedUsername) ==
  IF selected = <<>>
  THEN [username |-> username, encryptedUsername |-> encryptedUsername]
  ELSE [username |-> username, imageIndex |-> selected[1],
        encryptedUsername |-> encryptedUsername]

\* LogInModal's Create Log In, then ShowLogInKeyModal's Log In: onCreate is
\* called with the log in key the modal created; disableMessage stops a
\* username that is taken, and a picture index that is -1
CreateClicked(username, selected) ==
  /\ creating = <<>>
  /\ ~shareStale
  /\ userOps < opsAllowed
  /\ userOps' = userOps + 1
  /\ Len(appState.users) < usersAllowed
  /\ \A j \in 1..Len(appState.users) : appState.users[j].username # username
  /\ selected = selectedProfilePictureIndex(appState)
  /\ selected # <<-1>>
  /\ keysMade' = keysMade + 1
  /\ creating' = <<[username |-> username, selected |-> selected,
                    logInKey |-> logInKeyCreate, appState |-> appState]>>
  /\ isNeedLogInModal' = FALSE
  /\ UNCHANGED <<hash, mountHash, effectHash, appState, isLoaded, sessionKey,
                 mountPc, saving, decoding, alerts, consoleErrors, actingUser,
                 timers, shareLink, shareStale, encLog, installed, opsAllowed,
                 usersAllowed, splitVars, codecVars, proofVars>>

\* CreateDone gone wrong: the new user replaces the users of the snapshot
CreateDone_Replace ==
  /\ creating # <<>>
  /\ ~shareStale
  /\ creating' = <<>>
  /\ LET task == creating[1]
         user == NewUser(task.username, task.selected,
                         logInKeyEncrypt(task.logInKey, task.username).val)
     IN  /\ setAppState([task.appState EXCEPT !.users = <<user>>])
         /\ timers' = timers \cup {user}
         /\ encLog' = encLog \cup {EncryptionOf(task.logInKey, TextEncode(task.username))}
  /\ UNCHANGED <<hash, mountHash, effectHash, appState, isLoaded, sessionKey,
                 mountPc, decoding, consoleErrors, actingUser, keysMade, shareLink,
                 shareStale, installed, userOps, opsAllowed, usersAllowed, splitVars, codecVars, proofVars,
                 isNeedLogInModal>>

\* onCreate after its await of logInKeyEncrypt
CreateDone ==
  /\ creating # <<>>
  /\ ~shareStale
  /\ creating' = <<>>
  /\ LET task == creating[1]
         user == NewUser(task.username, task.selected,
                         logInKeyEncrypt(task.logInKey, task.username).val)
     IN  /\ setAppState([task.appState EXCEPT !.users = Append(@, user)])
         /\ timers' = timers \cup {user}
         /\ encLog' = encLog \cup {EncryptionOf(task.logInKey, TextEncode(task.username))}
  /\ UNCHANGED <<hash, mountHash, effectHash, appState, isLoaded, sessionKey,
                 mountPc, decoding, consoleErrors, actingUser, keysMade, shareLink,
                 shareStale, installed, userOps, opsAllowed, usersAllowed, splitVars, codecVars, proofVars,
                 isNeedLogInModal>>

\* setTimeout(() => setActingUser(user), 1000)
TimerFired(user) ==
  /\ user \in timers
  /\ ~shareStale
  /\ timers' = timers \ {user}
  /\ actingUser' = <<user>>
  /\ UNCHANGED <<hash, mountHash, effectHash, appState, isLoaded, sessionKey,
                 mountPc, saving, decoding, alerts, consoleErrors, creating,
                 keysMade, shareLink, shareStale, encLog, installed, userOps, opsAllowed, usersAllowed, splitVars,
                 codecVars, proofVars,
                 isNeedLogInModal>>

\* FirstMatch gone wrong: the proofs are not compared, the first user matches
FirstMatch_Unchecked(users, logInKey) == IF users = <<>> THEN 0 ELSE 1

\* FirstMatch gone wrong: the text the key gives is not compared with the
\* stored proof, it only has to start with it
FirstMatch_StartsWith(users, logInKey) ==
  LET matches == {j \in 1..Len(users) :
                    LET encryptedUsername == logInKeyEncrypt(logInKey, users[j].username).val
                        n == Len(users[j].encryptedUsername)
                    IN  /\ n <= Len(encryptedUsername)
                        /\ SubSeq(encryptedUsername, 1, n) = users[j].encryptedUsername}
  IN  IF matches = {} THEN 0 ELSE CHOOSE j \in matches : \A l \in matches : j <= l

\* the index of the first user whose stored proof the key reproduces, 0 if none
FirstMatch(users, logInKey) ==
  LET matches == {j \in 1..Len(users) :
                    logInKeyEncrypt(logInKey, users[j].username).val
                      = users[j].encryptedUsername}
  IN  IF matches = {} THEN 0 ELSE CHOOSE j \in matches : \A l \in matches : j <= l

\* the log in keys the users of the snapshot were created with
KnownLogInKeys(snapshot) ==
  {KeyText(snapshot.users[j].encryptedUsername[1].b64.ks) :
     j \in {l \in 1..Len(snapshot.users) : snapshot.users[l].encryptedUsername # <<>>}}

\* the keys a user may type into EnterLogInKeyModal: the key of a user, the
\* key of a share link, a text that is no key
CandidateKeys == KnownLogInKeys(appState) \cup {ForeignShareKey, Str("k")}

\* onLogIn
LogIn(logInKey) ==
  /\ hash # <<>>
  /\ ~shareStale
  /\ userOps < opsAllowed
  /\ userOps' = userOps + 1
  /\ appState.users # <<>>
  /\ IF ~logInKeyToCryptoKey(logInKey).ok
     THEN /\ consoleErrors' = "BadKeyFormat"
          /\ UNCHANGED <<timers, alerts, encLog>>
     ELSE LET match == FirstMatch(appState.users, logInKey)
              tried == IF match = 0 THEN Len(appState.users) ELSE match
          IN  /\ encLog' = encLog \cup
                   {EncryptionOf(logInKey, TextEncode(appState.users[j].username)) :
                      j \in 1..tried}
              /\ IF match = 0
                 THEN /\ alerts' = "Log in key is not valid."
                      /\ timers' = timers
                 ELSE /\ timers' = timers \cup {appState.users[match]}
                      /\ alerts' = alerts
              /\ consoleErrors' = consoleErrors
  /\ isNeedLogInModal' = FALSE
  /\ UNCHANGED <<hash, mountHash, effectHash, appState, isLoaded, sessionKey,
                 mountPc, saving, decoding, actingUser, creating, keysMade,
                 shareLink, shareStale, installed, opsAllowed, usersAllowed, splitVars, codecVars, proofVars>>

Next ==
  \/ MountStart
  \/ MountDecoded
  \/ \E task \in saving : SaveDone(task)
  \/ HashEffect
  \/ \E task \in decoding : DecodeDone(task)
  \/ \E h \in UserHashes : UserSetHash(h)
  \/ ShareEffect
  \/ \E id \in NewPostIds, content \in NewContents, t \in Times : NewThread(id, content, t)
  \/ \E postId \in PostIds, id \in NewPostIds, content \in NewContents, t \in Times :
       Reply(postId, id, content, t)
  \/ \E postId \in PostIds, t \in Times : Like(postId, t)
  \/ showNewThreadModal
  \/ \E postId \in PostIds : showReplyModal(postId)
  \/ hideNeedLogInModal
  \/ \E username \in NewUsernames, selected \in SelectedPictures :
       CreateClicked(username, selected)
  \/ CreateDone
  \/ \E user \in timers : TimerFired(user)
  \/ \E logInKey \in CandidateKeys : LogIn(logInKey)

Spec == Init /\ [][Next]_vars

\* a session opened on the empty fragment, followed for more actions of the
\* user; useEffectOnce never calls appStateFromHashWithKey in it
DeepInit == SessionStart(<<>>, MaxDeepOps, MaxUsers)

DeepNext ==
  \/ MountStart
  \/ \E task \in saving : SaveDone(task)
  \/ HashEffect
  \/ \E task \in decoding : DecodeDone(task)
  \/ \E h \in UserHashes : UserSetHash(h)
  \/ ShareEffect
  \/ \E id \in NewPostIds, content \in NewContents, t \in Times : NewThread(id, content, t)
  \/ \E postId \in PostIds, id \in NewPostIds, content \in NewContents, t \in Times :
       Reply(postId, id, content, t)
  \/ \E postId \in PostIds, t \in Times : Like(postId, t)
  \/ showNewThreadModal
  \/ \E postId \in PostIds : showReplyModal(postId)
  \/ hideNeedLogInModal
  \/ \E username \in NewUsernames, selected \in SelectedPictures :
       CreateClicked(username, selected)
  \/ CreateDone
  \/ \E user \in timers : TimerFired(user)
  \/ \E logInKey \in CandidateKeys : LogIn(logInKey)

DeepSpec == DeepInit /\ [][DeepNext]_vars

\* keyed links that fail at one stage of the decode each: a body that is no
\* base64, a body encrypted under another key than the one after the ":"
\* (WrongKeyLink), a plaintext that is no gzip stream, a compressed text
\* that is no JSON
NotBase64Link == Str("%") \o ForeignBody \o <<Delim>> \o ForeignShareKey

NotGzipLink ==
  logInKeyEncrypt(ForeignShareKey, arrayBufferToBase64(TextEncode(Str("x")))).val
    \o <<Delim>> \o ForeignShareKey

NotJsonLink ==
  logInKeyEncrypt(ForeignShareKey, compressToBase64(Str("x"))).val
    \o <<Delim>> \o ForeignShareKey

BrokenLinks == {NotBase64Link, WrongKeyLink, NotGzipLink, NotJsonLink}

\* a session opened on a keyed link, whole or broken
OpenInit == \E h \in BrokenLinks \cup {ForeignLink} : SessionStart(h, MaxUserOps, MaxUsers)

OpenSpec == OpenInit /\ [][Next]_vars

\* a session opened on the empty fragment whose user edits the thread and
\* leaves the address bar alone
EditInit == SessionStart(<<>>, MaxDeepOps, MaxUsers)

EditNext ==
  \/ MountStart
  \/ \E task \in saving : SaveDone(task)
  \/ HashEffect
  \/ \E task \in decoding : DecodeDone(task)
  \/ ShareEffect
  \/ \E id \in NewPostIds, content \in NewContents, t \in Times : NewThread(id, content, t)
  \/ \E postId \in PostIds, id \in NewPostIds, content \in NewContents, t \in Times :
       Reply(postId, id, content, t)
  \/ \E postId \in PostIds, t \in Times : Like(postId, t)
  \/ showNewThreadModal
  \/ \E postId \in PostIds : showReplyModal(postId)
  \/ hideNeedLogInModal
  \/ \E username \in NewUsernames, selected \in SelectedPictures :
       CreateClicked(username, selected)
  \/ CreateDone
  \/ \E user \in timers : TimerFired(user)
  \/ \E logInKey \in CandidateKeys : LogIn(logInKey)

EditSpec == EditInit /\ [][EditNext]_vars

\* a user another session created with picture i, under a log in key of its own
FullUser(name, i) ==
  [username |-> Str(name), imageIndex |-> i,
   encryptedUsername |-> logInKeyEncrypt(KeyText(0 - 2 - i), Str(name)).val]

\* the default thread after three log ins were created in it: with iamyarn
\* the four profile pictures are taken
FullSnapshot ==
  [initialAppState EXCEPT
     !.users = @ \o <<FullUser("anna", 1), FullUser("bert", 2), FullUser("cleo", 3)>>]

FullLink == appStateToHashWithKey(FullSnapshot, ForeignShareKey).val

\* a session opened on the share link of that thread
FullInit == SessionStart(FullLink, MaxUserOps, MaxFullUsers)

FullSpec == FullInit /\ [][Next]_vars

\* every effect runs, every promise settles and every timer fires; the user
\* need not act
Fairness ==
  /\ WF_vars(ShareEffect)
  /\ WF_vars(MountStart)
  /\ WF_vars(MountDecoded)
  /\ WF_vars(\E task \in saving : SaveDone(task))
  /\ WF_vars(HashEffect)
  /\ WF_vars(\E task \in decoding : DecodeDone(task))
  /\ WF_vars(CreateDone)
  /\ WF_vars(\E user \in timers : TimerFired(user))

LiveSpec == Spec /\ Fairness

(***************************************************************************)
(* Claims.                                                                 *)
(***************************************************************************)
\* C1: decoding, with the key k, what appStateToHashWithoutKey made of a
\* snapshot s with k returns a snapshot structurally equal to s, empty
\* replyPostIds and likes and the order of rootPostIds included.
C1_RoundTrip ==
  (codecPc = "decoded" /\ codecKey2 = codecKey) => codecOut = Ok(codecIn)

\* a round trip of a snapshot with two root posts, the second listed first,
\* and a post whose replyPostIds and likes are empty
C1_Witness ==
  /\ codecPc = "decoded" /\ codecKey2 = codecKey /\ codecOut.ok
  /\ codecIn.rootPostIds = <<Str("p2"), Str("p1")>>
  /\ \E j \in 1..Len(codecIn.allPosts) :
       codecIn.allPosts[j].replyPostIds = <<>> /\ codecIn.allPosts[j].likes = <<>>

\* C2: decoding a ciphertext made under the key K with another key fails
\* with an authentication error and returns no snapshot.
C2_WrongKeyFails ==
  (codecPc = "decoded" /\ codecKey2 # codecKey)
    => codecOut = Err("AuthenticationFailed")

\* a decode, with another key, of the ciphertext of a snapshot that has posts
C2_Witness ==
  /\ codecPc = "decoded" /\ codecKey2 # codecKey /\ ~codecOut.ok
  /\ codecIn.allPosts # <<>>

\* C8 as claimed: appStateGetHashBodyAndKey(f) returns (body, key) with
\* body + ":" + key = f exactly, also when the body holds ":", and a null
\* key iff f holds no ":".
C8_SplitJoin ==
  splitOut.done =>
    LET body == splitOut.result.encryptedBody
        key == splitOut.result.key
    IN  /\ key = Null <=> (\A i \in 1..Len(splitIn) : splitIn[i] # Delim)
        /\ key # Null => body \o <<Delim>> \o key = splitIn

(***************************************************************************)
(* Claims about the session.                                               *)
(***************************************************************************)
\* the session was started on a keyed fragment, which decoded
Opened ==
  /\ mountPc = "done"
  /\ mountHash # <<>>
  /\ appStateFromHashWithKey(mountHash).ok

OpenedSnapshot == appStateFromHashWithKey(mountHash).val

\* the key text of the fragment the session was started on
FragmentKey == appStateGetHashBodyAndKey(mountHash).key

NoDelim(h) == \A i \in 1..Len(h) : h[i] # Delim

\* no delimiter and no key text
Keyless(h) == \A i \in 1..Len(h) : h[i] # Delim /\ ~IsKind(h[i], {"jwk"})

UserStep == \E h \in UserHashes : UserSetHash(h)

\* C3: a session started on a keyed fragment that decodes eventually
\* installs a keyless fragment of the opened snapshot, and every fragment
\* the session installs (every change of the fragment that is not the
\* user's) is keyless: no delimiter, no key text.
C3_KeylessInstalled ==
  /\ Opened ~> (Opened /\ \E e \in installed :
                             e.appState = OpenedSnapshot /\ Keyless(e.hash))
  /\ [][(hash' # hash /\ ~UserStep) => (hash' # <<>> /\ Keyless(hash'))]_vars

\* the keyless fragment of the opened snapshot is the location fragment
C3_Witness ==
  /\ Opened
  /\ Keyless(hash) /\ hash # <<>>
  /\ [hash |-> hash, appState |-> OpenedSnapshot] \in installed

\* C4 as claimed: after a keyed fragment carrying the key K is opened, the
\* key the session holds in memory is K.
C4_SessionHoldsFragmentKey == Opened => sessionKey = FragmentKey

\* C4 amended: after a keyed fragment carrying the key K is opened, the key
\* the session holds in memory is not K but the key logInKeyCreate made at
\* session start; every save encodes under that session key, and no
\* fragment the session installs decodes under K.
C4_SessionHoldsOwnKey ==
  Opened =>
    /\ sessionKey # Null
    /\ sessionKey # FragmentKey
    /\ logInKeyToCryptoKey(sessionKey).ok
    /\ \A task \in saving : task.logInKey = sessionKey
    /\ \A e \in installed :
         /\ appStateFromHashWithoutKey(e.hash, sessionKey).ok
         /\ ~appStateFromHashWithoutKey(e.hash, FragmentKey).ok

\* the opened snapshot has been installed under the session key
C4_Witness ==
  /\ Opened
  /\ \E e \in installed : e.appState = OpenedSnapshot
  /\ saving = {}

\* C5: in a loaded session a change of the fragment to a non-empty text is
\* decoded with the session key; when the text is a fragment the session
\* installed, the snapshot it was made of becomes the in-memory snapshot;
\* every fragment the session installed decodes under the session key to
\* exactly the snapshot it was made of.
C5_OwnFragmentDecoded ==
  /\ [](\A e \in installed :
          appStateFromHashWithoutKey(e.hash, sessionKey) = Ok(e.appState))
  /\ [][(HashEffect /\ isLoaded /\ hash # <<>>)
          => [hash |-> hash, logInKey |-> sessionKey] \in decoding']_vars
  /\ [][\A task \in decoding :
          DecodeDone(task) =>
            /\ task.logInKey = sessionKey
            /\ \A e \in installed : e.hash = task.hash => appState' = e.appState]_vars

\* the fragment installed after the open has been decoded: the opened
\* snapshot is in memory
C5_Witness ==
  /\ Opened /\ isLoaded
  /\ [hash |-> hash, appState |-> OpenedSnapshot] \in installed
  /\ effectHash = hash /\ decoding = {}
  /\ appState = OpenedSnapshot
  /\ appState # initialAppState

LoadErrors == {BadLinkMessage, NoKeyMessage}

\* C6 as claimed: a decode failure, at the initial keyed open and at every
\* later fragment change, leaves the default snapshot in memory and an
\* error reported to the user.
C6_DecodeFailureFallsBack ==
  [][/\ (MountDecoded /\ ~appStateFromHashWithKey(mountHash).ok)
          => (appState' = initialAppState /\ alerts' \in LoadErrors)
     /\ \A task \in decoding :
          (DecodeDone(task) /\ ~appStateFromHashWithoutKey(task.hash, task.logInKey).ok)
            => (appState' = initialAppState /\ alerts' \in LoadErrors)]_vars

\* C7: on the initial load a non-empty fragment without a delimiter is
\* rejected: no decode is attempted, the error is reported, the default
\* snapshot stays in memory and the session is loaded; a session started on
\* another session's keyless fragment never holds that session's thread.
C7_KeylessRejected ==
  /\ [][(MountStart /\ mountHash # <<>> /\ NoDelim(mountHash))
          => /\ alerts' = NoKeyMessage
             /\ appState' = initialAppState
             /\ isLoaded'
             /\ mountPc' = "done"
             /\ decoding' = decoding /\ saving' = saving]_vars
  /\ []((mountHash # <<>> /\ NoDelim(mountHash)) => appState # ForeignSnapshot)

\* a session started on the keyless fragment of another session is loaded
\* with the default snapshot and the error shown
C7_Witness ==
  /\ mountHash = ForeignBody
  /\ mountPc = "done" /\ isLoaded
  /\ appState = initialAppState
  /\ alerts = NoKeyMessage

\* C9 as claimed: every key encrypts at most one distinct plaintext.
C9_OneKeyOneEncryption ==
  \A a \in encLog : \A b \in encLog : a.key = b.key => a.plaintext = b.plaintext

\* C10: the session key is assigned when the session starts and its value
\* never changes afterwards.
C10_SessionKeyWriteOnce ==
  /\ [](sessionKey = Null <=> mountPc = "start")
  /\ [][sessionKey # Null => sessionKey' = sessionKey]_vars

\* the key is held after a load, a save, a decode and two actions of the user
C10_Witness ==
  /\ sessionKey # Null
  /\ userOps = opsAllowed
  /\ installed # {}
  /\ appState # initialAppState

\* the key text of the share link
ShareKey == appStateGetHashBodyAndKey(shareLink).key

\* C11: the key text of a share link is never the session key, the session
\* key is in no fragment of the location, and the key of every share link is
\* fresh: it differs from the key of the share link before and has encrypted
\* nothing before.
C11_ShareKeyFresh ==
  /\ [](shareLink # <<>> =>
          /\ ShareKey # Null
          /\ ShareKey # sessionKey
          /\ \A i \in 1..Len(shareLink) : shareLink[i] # sessionKey[1])
  /\ [](\A i \in 1..Len(hash) : hash[i] # sessionKey[1])
  /\ [][ShareEffect =>
          /\ ShareKey' # ShareKey
          /\ \A e \in encLog : e.key # logInKeyToCryptoKey(ShareKey').val]_vars

\* a second share link has been made in a session that holds its key and
\* has installed a fragment
C11_Witness ==
  /\ sessionKey # Null
  /\ installed # {}
  /\ shareLink # <<>>
  /\ ~shareStale
  /\ \E e \in encLog :
       /\ e.key # logInKeyToCryptoKey(ShareKey).val
       /\ e.key # logInKeyToCryptoKey(sessionKey).val
       /\ e.plaintext = PlaintextOf(initialAppState)

\* C12 as claimed: no encode starts (no save is begun by setAppState, no
\* share link is made) while a decode begun by the hash effect is pending.
C12_DecodeBeforeEncode ==
  [][(saving' \ saving # {} \/ ShareEffect) => decoding = {}]_vars

\* the key reproduces the stored proof of the user
ProofMatches(logInKey, user) ==
  /\ logInKeyToCryptoKey(logInKey).ok
  /\ logInKeyEncrypt(logInKey, user.username) = Ok(user.encryptedUsername)

UsersKept(a, b) ==
  /\ Len(a.users) <= Len(b.users)
  /\ \A j \in 1..Len(a.users) : b.users[j] = a.users[j]

IdsResolve(snapshot) ==
  /\ \A j \in 1..Len(snapshot.rootPostIds) :
       getPost(snapshot, snapshot.rootPostIds[j]) # 0
  /\ \A j \in 1..Len(snapshot.allPosts) :
       \A l \in 1..Len(snapshot.allPosts[j].replyPostIds) :
         getPost(snapshot, snapshot.allPosts[j].replyPostIds[l]) # 0

\* C16: in the snapshot in memory, in every snapshot being saved and in
\* every snapshot the session has saved, every id of rootPostIds and of any
\* post's replyPostIds is the id of a post of allPosts.
C16_PostIdsResolve ==
  /\ IdsResolve(appState)
  /\ \A task \in saving : IdsResolve(task.appState)
  /\ \A e \in installed : IdsResolve(e.appState)

\* a reply was posted, saved and decoded: the replied post lists an id
C16_Witness ==
  /\ \E j \in 1..Len(appState.allPosts) : appState.allPosts[j].replyPostIds # <<>>
  /\ Len(appState.allPosts) = 2
  /\ [hash |-> hash, appState |-> appState] \in installed

\* getUser: the index of the user in users, 0 if there is none
getUser(snapshot, username) ==
  LET found == {j \in 1..Len(snapshot.users) : snapshot.users[j].username = username}
  IN  IF found = {} THEN 0 ELSE CHOOSE j \in found : \A l \in found : j <= l

\* every post's author and every like's username is a user of the snapshot
AuthorsResolve(snapshot) ==
  \A j \in 1..Len(snapshot.allPosts) :
    /\ getUser(snapshot, snapshot.allPosts[j].username) # 0
    /\ \A l \in 1..Len(snapshot.allPosts[j].likes) :
         getUser(snapshot, snapshot.allPosts[j].likes[l].username) # 0

\* C17: in the snapshot in memory, in every snapshot being saved and in
\* every snapshot the session has saved, every post's author and every
\* like's username is the username of a user of users.
C17_AuthorsResolve ==
  /\ AuthorsResolve(appState)
  /\ \A task \in saving : AuthorsResolve(task.appState)
  /\ \A e \in installed : AuthorsResolve(e.appState)

\* C18 as claimed: whenever the location fragment is a keyed fragment
\* produced for a snapshot s and the session has finished working on it (the
\* mount is over, the hash effect has run on it, no decode and no save is
\* pending), the snapshot in memory is s.
C18_ShareLinkOpens ==
  (/\ appStateHashHasKey(hash)
   /\ appStateFromHashWithKey(hash).ok
   /\ mountPc = "done" /\ isLoaded
   /\ effectHash = hash /\ decoding = {} /\ saving = {} /\ creating = <<>>)
    => appState = appStateFromHashWithKey(hash).val

\* the bytes the cipher was given: the fragment body ByteCodec-decoded and
\* decrypted under the key of the encode
CipherPlaintext ==
  AesGcmDecrypt(logInKeyToCryptoKey(codecKey).val, base64ToArrayBuffer(codecHash).val)

FailedStage(h) ==
  LET bodyAndKey == appStateGetHashBodyAndKey(h)
      compressed == logInKeyDecrypt(bodyAndKey.key, bodyAndKey.encryptedBody)
      bytes == base64ToArrayBuffer(compressed.val)
      json == decompress(bytes.val)
  IN  IF ~base64ToArrayBuffer(bodyAndKey.encryptedBody).ok THEN "base64"
      ELSE IF ~compressed.ok THEN "decrypt"
      ELSE IF ~bytes.ok \/ ~json.ok THEN "decompress"
      ELSE IF ~JSONparse(json.val).ok THEN "parse"
      ELSE ""

\* C20: a decode that fails, at whatever stage, changes no field of the
\* snapshot in memory (in the hash effect nothing is assigned; in
\* useEffectOnce the default snapshot is assigned over the default
\* snapshot); the snapshot in memory changes only to the default snapshot or
\* to the whole result of a decode that succeeded, with its three fields.
C20_DecodeAllOrNothing ==
  /\ [][\A task \in decoding :
          (DecodeDone(task) /\ ~appStateFromHashWithoutKey(task.hash, task.logInKey).ok)
            => appState' = appState]_vars
  /\ [][(MountDecoded /\ ~appStateFromHashWithKey(mountHash).ok)
          => appState' = appState]_vars
  /\ [][appState' # appState =>
          \/ appState' = initialAppState
          \/ \E task \in decoding :
               /\ DecodeDone(task)
               /\ appStateFromHashWithoutKey(task.hash, task.logInKey) = Ok(appState')]_vars
  /\ [](DOMAIN appState = {"users", "allPosts", "rootPostIds"})

\* a link whose compressed text is no JSON was opened and refused, the user
\* has since created a log in whose snapshot was saved and decoded, and a
\* fragment change to a shared link has failed: the snapshot is still there
C20_Witness ==
  /\ FailedStage(mountHash) = "parse"
  /\ alerts = BadLinkMessage
  /\ mountPc = "done"
  /\ consoleErrors # ""
  /\ hash = ForeignLink /\ effectHash = hash /\ decoding = {}
  /\ Len(appState.users) = 2

\* the posts of b whose id no post of a has
NewPosts(a, b) ==
  {b.allPosts[j] : j \in {l \in 1..Len(b.allPosts) : getPost(a, b.allPosts[l].postId) = 0}}

\* the likes of b, with their post ids, that a does not have
LikesOf(a) ==
  UNION {{<<a.allPosts[j].postId, a.allPosts[j].likes[l]>> :
            l \in 1..Len(a.allPosts[j].likes)} : j \in 1..Len(a.allPosts)}

NewLikes(a, b) == LikesOf(b) \ LikesOf(a)

PostStep ==
  \E id \in NewPostIds, content \in NewContents, t \in Times :
    \/ NewThread(id, content, t)
    \/ \E postId \in PostIds : Reply(postId, id, content, t)

LikeStep == \E postId \in PostIds, t \in Times : Like(postId, t)

\* C21: with no acting user, the new-thread and the reply button show the
\* prompt to log in and start no save, and a like shows the prompt and hands
\* the snapshot to setAppState as it is; the snapshot in memory is not
\* changed.  Every post and every like that new thread, reply and like add
\* to the snapshot has the username of the acting user, who is set.
C21_GuestsChangeNothing ==
  /\ [][(showNewThreadModal \/ \E postId \in PostIds : showReplyModal(postId))
          => /\ isNeedLogInModal'
             /\ appState' = appState /\ saving' = saving /\ hash' = hash]_vars
  /\ [][(LikeStep /\ actingUser = <<>>)
          => /\ isNeedLogInModal'
             /\ appState' = appState
             /\ \A task \in saving' \ saving : task.appState = appState]_vars
  /\ [][(PostStep \/ LikeStep)
          => \A task \in saving' \ saving :
               /\ \A post \in NewPosts(appState, task.appState) :
                    actingUser # <<>> /\ post.username = actingUser[1].username
               /\ \A like \in NewLikes(appState, task.appState) :
                    actingUser # <<>> /\ like[2].username = actingUser[1].username]_vars

\* a like was tried with no acting user: the prompt shows, and the fragment
\* that was saved holds the default snapshot, without a like
C21_Witness ==
  /\ mountHash = <<>> /\ userOps = 1
  /\ isNeedLogInModal /\ actingUser = <<>>
  /\ saving = {} /\ installed # {}
  /\ appState = initialAppState
  /\ \A e \in installed : e.appState = initialAppState /\ e.hash = hash

\* every user has a picture index of getProfilePictures(), no two users
\* have the same, and so there are four users at most
PicturesValid(snapshot) ==
  /\ Len(snapshot.users) <= Cardinality(ProfilePictureIndexes)
  /\ \A j \in 1..Len(snapshot.users) :
       /\ "imageIndex" \in DOMAIN snapshot.users[j]
       /\ snapshot.users[j].imageIndex \in ProfilePictureIndexes
       /\ \A l \in 1..Len(snapshot.users) :
            (l # j /\ "imageIndex" \in DOMAIN snapshot.users[l])
              => snapshot.users[l].imageIndex # snapshot.users[j].imageIndex

\* C22 as claimed: in the snapshot in memory, in every snapshot being saved
\* and in every saved one, each user's imageIndex is an index of the four
\* profile pictures and no two users share one, so that there are at most
\* four users.
C22_PicturesValidAndDistinct ==
  /\ PicturesValid(appState)
  /\ \A task \in saving : PicturesValid(task.appState)
  /\ \A e \in installed : PicturesValid(e.appState)

NotLoadedMessage == "Error! Attempted to setAppSate before appState was loaded."

\* C23: once isLoadedRef is true the session key is set; every save that is
\* started is started with isLoadedRef true and under the session key; a
\* handler that calls setAppState while isLoadedRef is false gets the error
\* alert and changes neither the location fragment nor the snapshot in
\* memory, and starts no save.
C23_NoSaveBeforeLoad ==
  /\ [](isLoaded => sessionKey # Null)
  /\ [](\A task \in saving : task.logInKey # Null /\ task.logInKey = sessionKey)
  /\ [][saving' \ saving # {} => isLoaded']_vars
  /\ [][((PostStep \/ LikeStep \/ CreateDone) /\ ~isLoaded)
          => /\ alerts' = NotLoadedMessage
             /\ saving' = saving /\ hash' = hash /\ appState' = appState]_vars

\* a like was clicked before the load had finished: the alert, and nothing
\* saved
C23_Witness ==
  /\ ~isLoaded /\ userOps >= 1
  /\ alerts = NotLoadedMessage
  /\ saving = {} /\ installed = {} /\ hash = mountHash
  /\ appState = initialAppState

\* nothing asynchronous is pending: the load is over, the hash effect has
\* run on the current fragment, no save, decode or onCreate is under way
Quiescent ==
  /\ mountPc = "done" /\ isLoaded
  /\ effectHash = hash
  /\ saving = {} /\ decoding = {} /\ creating = <<>>

\* C24 as claimed: once nothing is pending, the snapshot in memory is the
\* decode, under the session key, of the location fragment (the default
\* snapshot for the empty fragment), whatever the order in which saves and
\* decodes completed.
C24_QuiescentConsistent ==
  Quiescent =>
    IF hash = <<>> THEN appState = initialAppState
    ELSE appStateFromHashWithoutKey(hash, sessionKey).ok
           => appState = appStateFromHashWithoutKey(hash, sessionKey).val

\* every post and every user of the snapshot a is in the snapshot b
EditsKept(a, b) ==
  /\ \A j \in 1..Len(a.allPosts) : getPost(b, a.allPosts[j].postId) # 0
  /\ \A j \in 1..Len(a.users) : getUser(b, a.users[j].username) # 0

\* C25 as claimed, for new threads, replies and log ins, in a session whose
\* user never touches the address bar: once nothing is pending, every post
\* and every user of every snapshot the session has saved is in the snapshot
\* in memory.
C25_NoLostEdit ==
  Quiescent => \A e \in installed : EditsKept(e.appState, appState)

\* no two posts of the snapshot have the same postId
IdsUnique(snapshot) ==
  \A j, l \in 1..Len(snapshot.allPosts) :
    snapshot.allPosts[j].postId = snapshot.allPosts[l].postId => j = l

\* C26: in the snapshot in memory, in every snapshot being saved and in
\* every saved one, no two posts have the same postId.
C26_PostIdsUnique ==
  /\ IdsUnique(appState)
  /\ \A task \in saving : IdsUnique(task.appState)
  /\ \A e \in installed : IdsUnique(e.appState)

\* two posts were created one after the other, the second on the snapshot
\* that held the first: generatePostId had an id to avoid
C26_Witness ==
  /\ Quiescent
  /\ Len(appState.allPosts) = 3
  /\ {appState.allPosts[2].postId, appState.allPosts[3].postId} = NewPostIds

\* the posts that list the id in their replyPostIds, with the place
ParentsOf(snapshot, postId) ==
  {<<j, l>> \in (1..Len(snapshot.allPosts)) \X (1..MaxPosts) :
     /\ l <= Len(snapshot.allPosts[j].replyPostIds)
     /\ snapshot.allPosts[j].replyPostIds[l] = postId}

\* every post is a root post listed in no replyPostIds, or a post outside
\* rootPostIds, without replies, listed once, by one root post
TwoLevels(snapshot) ==
  \A j \in 1..Len(snapshot.allPosts) :
    LET post == snapshot.allPosts[j]
        parents == ParentsOf(snapshot, post.postId)
    IN  IF isRootPost(snapshot, post.postId)
        THEN parents = {}
        ELSE /\ post.replyPostIds = <<>>
             /\ Cardinality(parents) = 1
             /\ \A parent \in parents :
                  isRootPost(snapshot, snapshot.allPosts[parent[1]].postId)

\* C27: in the snapshot in memory, in every snapshot being saved and in
\* every saved one, each post is a root post listed in no replyPostIds or a
\* reply listed by exactly one root post, and a reply has no replies; a new
\* thread appends its id at the end of rootPostIds and leaves the ids before
\* it as they were.
C27_TwoLevels ==
  /\ [](/\ TwoLevels(appState)
        /\ \A task \in saving : TwoLevels(task.appState)
        /\ \A e \in installed : TwoLevels(e.appState))
  /\ [][\A id \in NewPostIds, content \in NewContents, t \in Times :
          NewThread(id, content, t) =>
            \A task \in saving' \ saving :
              task.appState.rootPostIds = Append(appState.rootPostIds, id)]_vars

\* a thread with a reply to its first post and a second root post
C27_Witness ==
  /\ Quiescent
  /\ Len(appState.allPosts) = 3
  /\ Len(appState.rootPostIds) = 2
  /\ appState.rootPostIds[1] = Str("xrj391")
  /\ Len(appState.allPosts[1].replyPostIds) = 1

\* the usernames of the likes of the post
Likers(snapshot, postId) ==
  {snapshot.allPosts[getPost(snapshot, postId)].likes[l].username :
     l \in 1..Len(snapshot.allPosts[getPost(snapshot, postId)].likes)}

\* no post has two likes of one username
OneLikeEach(snapshot) ==
  \A j \in 1..Len(snapshot.allPosts) :
    \A l, m \in 1..Len(snapshot.allPosts[j].likes) :
      snapshot.allPosts[j].likes[l].username = snapshot.allPosts[j].likes[m].username
        => l = m

\* b is a with the like of username on the post toggled, and nothing else
\* changed: the other posts, and the likes of the other users in their order
Toggled(a, b, postId, username) ==
  LET j == getPost(a, postId)
      others(likes) == SelectSeq(likes, LAMBDA o : o.username # username)
  IN  /\ Len(b.allPosts) = Len(a.allPosts)
      /\ b.users = a.users /\ b.rootPostIds = a.rootPostIds
      /\ \A l \in 1..Len(a.allPosts) : l # j => b.allPosts[l] = a.allPosts[l]
      /\ [b.allPosts[j] EXCEPT !.likes = <<>>] = [a.allPosts[j] EXCEPT !.likes = <<>>]
      /\ others(b.allPosts[j].likes) = others(a.allPosts[j].likes)
      /\ (username \in Likers(b, postId)) = (username \notin Likers(a, postId))

\* C28: no post of a snapshot in memory, being saved or saved has two likes
\* of one username; a like clicked by the acting user hands to setAppState
\* the snapshot with that user's like on that post added if it was absent and
\* removed if it was there, every other post and every other user's like as
\* it was; toggling twice on a snapshot gives back its likers.
C28_LikeToggles ==
  /\ [](/\ OneLikeEach(appState)
        /\ \A task \in saving : OneLikeEach(task.appState)
        /\ \A e \in installed : OneLikeEach(e.appState))
  /\ [][\A postId \in PostIds, t \in Times :
          (Like(postId, t) /\ actingUser # <<>>) =>
            \A task \in saving' \ saving :
              Toggled(appState, task.appState, postId, actingUser[1].username)]_vars
  /\ [](actingUser # <<>> =>
          \A postId \in PostIds, t \in Times :
            getPost(appState, postId) # 0 =>
              LET twice == togglePostLike(togglePostLike(appState, postId, t), postId, t)
              IN  /\ \A other \in PostIds :
                       getPost(appState, other) # 0
                         => Likers(twice, other) = Likers(appState, other)
                  /\ Toggled(togglePostLike(appState, postId, t), twice, postId,
                             actingUser[1].username))

\* alice has liked the first post and then taken the like back: a snapshot
\* with her like was saved, the snapshot in memory has none
C28_Witness ==
  /\ Quiescent /\ userOps = 3
  /\ actingUser # <<>> /\ actingUser[1].username = Str("alice")
  /\ Len(appState.allPosts) = 1 /\ appState.allPosts[1].likes = <<>>
  /\ \E e \in installed : Likers(e.appState, Str("xrj391")) = {Str("alice")}

\* every post has a trimmed content that is not empty and has at most
\* POST_SIZE_LIMIT characters
ContentsValid(snapshot) ==
  \A j \in 1..Len(snapshot.allPosts) :
    /\ snapshot.allPosts[j].content # <<>>
    /\ snapshot.allPosts[j].content = trim(snapshot.allPosts[j].content)
    /\ TextLength(snapshot.allPosts[j].content) <= POST_SIZE_LIMIT

\* C29 as claimed: every post of a snapshot in memory, being saved or saved
\* has a trimmed content that is not empty and has at most POST_SIZE_LIMIT
\* characters.
C29_ContentsValid ==
  /\ ContentsValid(appState)
  /\ \A task \in saving : ContentsValid(task.appState)
  /\ \A e \in installed : ContentsValid(e.appState)

\* C30: no key entered logs in as a user whose stored proof is the empty
\* text: such a user never waits in a log in timer and is never the acting
\* user, so the first user of the default snapshot, "iamyarn", is never
\* logged in.
C30_NoLogInWithoutProof ==
  /\ \A user \in timers : user.encryptedUsername # <<>>
  /\ actingUser # <<>> => actingUser[1].encryptedUsername # <<>>

\* a key has logged in on the default thread, past its first user, whose
\* proof is empty
C30_Witness ==
  /\ appState.users # <<>>
  /\ appState.users[1] = initialAppState.users[1]
  /\ appState.users[1].encryptedUsername = <<>>
  /\ alerts = ""
  /\ \E user \in timers : \E j \in 2..Len(appState.users) : appState.users[j] = user

====
